---- MODULE Spec2Model ----
(***************************************************************************)
(* Password security tool: the strength checker (src/src/checker.py) and   *)
(* the password generator (src/src/generator.py), driven by the menu loop  *)
(* of src/src/tool.py.                                                     *)
(*                                                                         *)
(* A string is a sequence of characters; a character is a one-character    *)
(* TLA+ string, and the few characters outside printable ASCII that the    *)
(* inputs use are written "<LF>", "<U+0663>", "<U+212A>".  A float with    *)
(* two decimals (the entropy) is the integer number of hundredths.         *)
(***************************************************************************)
EXTENDS Integers, Sequences, FiniteSets, TLC

VARIABLES
    checker,    \* the PasswordStrengthChecker object: thresholds and reference lists
    generator,  \* the PasswordGenerator object: class charsets and word list
    op,         \* the operation the menu loop called last, "menu" between calls
    args,       \* the arguments of that call
    result,     \* what the call returned or raised
    tape,       \* the raw values the secure random source held for the call
    draws       \* the number of draws the call took from that source

vars == <<checker, generator, op, args, result, tape, draws>>

-----------------------------------------------------------------------------
(* Bounds of the model *)

\* check_strength inputs are concatenations of at most MaxFrags fragments
MaxFrags == 2
\* and repetitions, at most MaxRepeat times, of a long seed
MaxRepeat == 14
\* generate is called with lengths up to MaxGenLength
MaxGenLength == 9
\* generate_multiple with counts up to MaxCount
MaxCount == 2
\* generate_passphrase with word counts up to MaxWordCount
MaxWordCount == 4
\* generate_pin with lengths up to MaxPinLength
MaxPinLength == 2
\* the random source: a call's draws follow a tape of TapeLen raw values,
\* repeated, each one of RandLevels evenly spaced levels
TapeLen == 2
RandLevels == 4

-----------------------------------------------------------------------------
(* Characters and strings *)

\* string.ascii_lowercase, string.ascii_uppercase, string.digits
ascii_lowercase ==
  <<"a", "b", "c", "d", "e", "f", "g", "h", "i", "j", "k", "l", "m", "n", "o", "p", "q", "r",
    "s", "t", "u", "v", "w", "x", "y", "z">>
ascii_uppercase ==
  <<"A", "B", "C", "D", "E", "F", "G", "H", "I", "J", "K", "L", "M", "N", "O", "P", "Q", "R",
    "S", "T", "U", "V", "W", "X", "Y", "Z">>
ascii_digits ==
  <<"0", "1", "2", "3", "4", "5", "6", "7", "8", "9">>

Range(s) == {s[i] : i \in 1..Len(s)}

Max(a, b) == IF a >= b THEN a ELSE b

\* characters outside ASCII that the inputs use: a line feed, the
\* ARABIC-INDIC DIGIT THREE (a decimal digit for \d) and the KELVIN SIGN
\* (lowercased to "k" by str.lower)
LineFeed == "<LF>"
ArabicThree == "<U+0663>"
KelvinSign == "<U+212A>"

IndexOf(s, c) == CHOOSE i \in 1..Len(s) : s[i] = c

\* str.lower() on one character
LowerChar(c) ==
    IF c \in Range(ascii_uppercase) THEN ascii_lowercase[IndexOf(ascii_uppercase, c)]
    ELSE IF c = KelvinSign THEN "k"
    ELSE c

\* str.upper() on one character of a word of the word list
UpperChar(c) ==
    IF c \in Range(ascii_lowercase) THEN ascii_uppercase[IndexOf(ascii_lowercase, c)]
    ELSE c

\* password.lower()
Lower(s) == [i \in 1..Len(s) |-> LowerChar(s[i])]

\* word.capitalize(): first character upper-cased, the rest lower-cased
Capitalize(s) ==
    [i \in 1..Len(s) |-> IF i = 1 THEN UpperChar(s[i]) ELSE LowerChar(s[i])]

\* pattern in s
Contains(s, pattern) ==
    \E i \in 1..(Len(s) - Len(pattern) + 1) :
        SubSeq(s, i, i + Len(pattern) - 1) = pattern

\* the text of a string of ASCII characters, for f-strings
RECURSIVE Text(_)
Text(s) == IF s = <<>> THEN "" ELSE Head(s) \o Text(Tail(s))

\* the regular expression classes [a-z], [A-Z], \d, [^a-zA-Z0-9] and .
IsLower(c) == c \in Range(ascii_lowercase)
IsUpper(c) == c \in Range(ascii_uppercase)
IsDigit(c) == c \in Range(ascii_digits) \cup {ArabicThree}
IsSymbol(c) == c \notin Range(ascii_lowercase) \cup Range(ascii_uppercase) \cup Range(ascii_digits)
IsDot(c) == c # LineFeed

\* re.search(r'[a-z]', password), and with [A-Z], \d, [^a-zA-Z0-9]
HasLower(password) == \E i \in 1..Len(password) : IsLower(password[i])
HasUpper(password) == \E i \in 1..Len(password) : IsUpper(password[i])
HasDigit(password) == \E i \in 1..Len(password) : IsDigit(password[i])
HasSymbol(password) == \E i \in 1..Len(password) : IsSymbol(password[i])

-----------------------------------------------------------------------------
(* PasswordStrengthChecker *)

COMMON_PASSWORDS ==
  <<
    <<"p", "a", "s", "s", "w", "o", "r", "d">>, <<"1", "2", "3", "4", "5", "6">>,
    <<"1", "2", "3", "4", "5", "6", "7", "8">>, <<"q", "w", "e", "r", "t", "y">>,
    <<"a", "b", "c", "1", "2", "3">>, <<"m", "o", "n", "k", "e", "y">>,
    <<"1", "2", "3", "4", "5", "6", "7">>, <<"l", "e", "t", "m", "e", "i", "n">>,
    <<"t", "r", "u", "s", "t", "n", "o", "1">>, <<"d", "r", "a", "g", "o", "n">>,
    <<"b", "a", "s", "e", "b", "a", "l", "l">>, <<"i", "l", "o", "v", "e", "y", "o", "u">>,
    <<"m", "a", "s", "t", "e", "r">>, <<"s", "u", "n", "s", "h", "i", "n", "e">>,
    <<"a", "s", "h", "l", "e", "y">>, <<"b", "a", "i", "l", "e", "y">>,
    <<"p", "a", "s", "s", "w", "0", "r", "d">>, <<"s", "h", "a", "d", "o", "w">>,
    <<"1", "2", "3", "1", "2", "3">>, <<"6", "5", "4", "3", "2", "1">>,
    <<"a", "d", "m", "i", "n">>, <<"w", "e", "l", "c", "o", "m", "e">>,
    <<"l", "o", "g", "i", "n">>, <<"p", "a", "s", "s", "w", "o", "r", "d", "1">>,
    <<"q", "w", "e", "r", "t", "y", "1", "2", "3">>
  >>

COMMON_PATTERNS ==
  <<
    <<"1", "2", "3">>, <<"a", "b", "c">>, <<"q", "w", "e">>, <<"1", "1", "1">>,
    <<"0", "0", "0">>, <<"a", "a", "a">>
  >>

KEYBOARD_PATTERNS ==
  <<
    <<"q", "w", "e", "r", "t", "y">>, <<"a", "s", "d", "f", "g", "h">>,
    <<"z", "x", "c", "v", "b", "n">>, <<"1", "q", "a", "z">>, <<"2", "w", "s", "x">>,
    <<"q", "w", "e", "r", "t", "y", "u", "i", "o", "p">>,
    <<"a", "s", "d", "f", "g", "h", "j", "k", "l">>, <<"z", "x", "c", "v", "b", "n", "m">>
  >>

\* PasswordStrengthChecker(): the class attributes and __init__
NewChecker ==
    [ COMMON_PASSWORDS  |-> COMMON_PASSWORDS,
      COMMON_PATTERNS   |-> COMMON_PATTERNS,
      KEYBOARD_PATTERNS |-> KEYBOARD_PATTERNS,
      min_length         |-> 8,
      recommended_length |-> 12,
      strong_length      |-> 16 ]

\* StrengthLevel, by ordinal
VERY_WEAK == 0
WEAK == 1
FAIR == 2
GOOD == 3
STRONG == 4
VERY_STRONG == 5

\* a call returns a value or raises an exception
Return(v) == [kind |-> "return", value |-> v]
Raise(exc, message) == [kind |-> "raise", exc |-> exc, message |-> message]

\* the dataclass PasswordAnalysis
PasswordAnalysis(password, strength, score, entropy, feedback, time_to_crack) ==
    [ password      |-> password,
      strength      |-> strength,
      score         |-> score,
      entropy       |-> entropy,
      feedback      |-> feedback,
      time_to_crack |-> time_to_crack ]

\* faulty variant of _check_length: a password of strong length earns 4
check_length_generous(self, password) ==
    LET length == Len(password) IN
    IF length < self.min_length THEN
        [ score    |-> -2,
          feedback |-> << "Password too short. Use at least "
                          \o ToString(self.min_length) \o " characters" >> ]
    ELSE IF length >= self.strong_length THEN
        [ score |-> 4, feedback |-> <<>> ]
    ELSE IF length >= self.recommended_length THEN
        [ score |-> 2, feedback |-> <<>> ]
    ELSE
        [ score    |-> 1,
          feedback |-> << "Consider using at least "
                          \o ToString(self.recommended_length) \o " characters" >> ]

\* _check_length: (score, feedback)
check_length(self, password) ==
    LET length == Len(password) IN
    IF length < self.min_length THEN
        [ score    |-> -2,
          feedback |-> << "Password too short. Use at least "
                          \o ToString(self.min_length) \o " characters" >> ]
    ELSE IF length >= self.strong_length THEN
        [ score |-> 3, feedback |-> <<>> ]
    ELSE IF length >= self.recommended_length THEN
        [ score |-> 2, feedback |-> <<>> ]
    ELSE
        [ score    |-> 1,
          feedback |-> << "Consider using at least "
                          \o ToString(self.recommended_length) \o " characters" >> ]

\* _check_character_variety: (score, feedback)
check_character_variety(self, password) ==
    LET has_lower  == HasLower(password)
        has_upper  == HasUpper(password)
        has_digit  == HasDigit(password)
        has_symbol == HasSymbol(password)
    IN  [ score    |-> (IF has_lower THEN 1 ELSE 0) + (IF has_upper THEN 1 ELSE 0)
                       + (IF has_digit THEN 1 ELSE 0) + (IF has_symbol THEN 2 ELSE 0),
          feedback |->
                 (IF has_lower THEN <<>> ELSE <<"Add lowercase letters (a-z)">>)
              \o (IF has_upper THEN <<>> ELSE <<"Add uppercase letters (A-Z)">>)
              \o (IF has_digit THEN <<>> ELSE <<"Add numbers (0-9)">>)
              \o (IF has_symbol THEN <<>> ELSE <<"Add special characters (!@#$%^&*)">>) ]

\* faulty variant of the scan: it goes on to the last pattern that occurs
LastHit(patterns, s) ==
    LET hits == {i \in 1..Len(patterns) : Contains(s, patterns[i])}
    IN  {i \in hits : \A j \in hits : i >= j}

\* the first pattern of the list that occurs in s, as a set of at most one index:
\* for pattern in patterns: if pattern in s: ...; break
FirstHit(patterns, s) ==
    LET hits == {i \in 1..Len(patterns) : Contains(s, patterns[i])}
    IN  {i \in hits : \A j \in hits : i <= j}

\* faulty variant of _check_patterns: the listed passwords are compared with the
\* password as typed, not with its lowercased form
check_patterns_as_typed(self, password) ==
    LET lower_pwd == Lower(password)
        common    == password \in Range(self.COMMON_PASSWORDS)
        hit       == FirstHit(self.COMMON_PATTERNS, lower_pwd)
    IN  [ score    |-> (IF common THEN -5 ELSE 0) + (IF hit # {} THEN -1 ELSE 0),
          feedback |->
                 (IF common THEN <<"This is a commonly used password - avoid it">>
                  ELSE <<>>)
              \o (IF hit # {}
                  THEN << "Avoid common patterns like '"
                          \o Text(self.COMMON_PATTERNS[CHOOSE i \in hit : TRUE]) \o "'" >>
                  ELSE <<>>) ]

\* _check_patterns: (penalty, feedback)
check_patterns(self, password) ==
    LET lower_pwd == Lower(password)
        common    == lower_pwd \in Range(self.COMMON_PASSWORDS)
        hit       == FirstHit(self.COMMON_PATTERNS, lower_pwd)
    IN  [ score    |-> (IF common THEN -5 ELSE 0) + (IF hit # {} THEN -1 ELSE 0),
          feedback |->
                 (IF common THEN <<"This is a commonly used password - avoid it">>
                  ELSE <<>>)
              \o (IF hit # {}
                  THEN << "Avoid common patterns like '"
                          \o Text(self.COMMON_PATTERNS[CHOOSE i \in hit : TRUE]) \o "'" >>
                  ELSE <<>>) ]

\* re.search(r'(.)\1{2,}', password): three equal characters in a row, the
\* first one matched by the dot
HasRepeat(password) ==
    \E i \in 1..(Len(password) - 2) :
        /\ IsDot(password[i])
        /\ password[i + 1] = password[i]
        /\ password[i + 2] = password[i]

\* _check_sequences: (penalty, feedback)
check_sequences(self, password) ==
    LET repeated  == HasRepeat(password)
        lower_pwd == Lower(password)
        keyboard  == FirstHit(self.KEYBOARD_PATTERNS, lower_pwd) # {}
    IN  [ score    |-> (IF repeated THEN -1 ELSE 0) + (IF keyboard THEN -1 ELSE 0),
          feedback |->
                 (IF repeated THEN <<"Avoid repeated characters (e.g., 'aaa', '111')">>
                  ELSE <<>>)
              \o (IF keyboard THEN <<"Avoid keyboard patterns">> ELSE <<>>) ]

\* math.log2(n) for the charset sizes that occur: its integer part and its
\* fraction in units of 10^-8
Log2Int(n) ==
    CASE n = 10 -> 3
      [] n = 26 -> 4
      [] n = 32 -> 5
      [] n \in {36, 42, 52, 58, 62} -> 5
      [] n \in {68, 84, 94} -> 6

Log2Frac(n) ==
    CASE n = 10 -> 32192809
      [] n = 26 -> 70043972
      [] n = 32 -> 0
      [] n = 36 -> 16992500
      [] n = 42 -> 39231742
      [] n = 52 -> 70043972
      [] n = 58 -> 85798100
      [] n = 62 -> 95419631
      [] n = 68 -> 8746284
      [] n = 84 -> 39231742
      [] n = 94 -> 55458885

\* round(length * math.log2(n), 2), in hundredths: the fraction is multiplied in
\* two halves of four digits so that no product leaves the 32-bit integers
RoundedProduct(length, n) ==
    LET hi == Log2Frac(n) \div 10000
        lo == Log2Frac(n) % 10000
    IN  length * Log2Int(n) * 100
        + ((length * hi + ((length * lo + 500000) \div 10000)) \div 100)

\* faulty variant of _calculate_entropy: the bits of one character are divided
\* by the length instead of multiplied by it
calculate_entropy_divided(self, password) ==
    LET charset_size ==
              (IF HasLower(password) THEN 26 ELSE 0)
            + (IF HasUpper(password) THEN 26 ELSE 0)
            + (IF HasDigit(password) THEN 10 ELSE 0)
            + (IF HasSymbol(password) THEN 32 ELSE 0)
    IN  IF charset_size = 0 THEN 0
        ELSE RoundedProduct(1, charset_size) \div Len(password)

\* _calculate_entropy, in hundredths of a bit
calculate_entropy(self, password) ==
    LET charset_size ==
              (IF HasLower(password) THEN 26 ELSE 0)
            + (IF HasUpper(password) THEN 26 ELSE 0)
            + (IF HasDigit(password) THEN 10 ELSE 0)
            + (IF HasSymbol(password) THEN 32 ELSE 0)
    IN  IF charset_size = 0 THEN 0
        ELSE RoundedProduct(Len(password), charset_size)

\* faulty variant of _determine_strength: a band needs both of its conditions
determine_strength_both(self, score, entropy) ==
    IF score <= 0 /\ entropy < 2800 THEN VERY_WEAK
    ELSE IF score <= 2 /\ entropy < 3600 THEN WEAK
    ELSE IF score <= 4 /\ entropy < 5000 THEN FAIR
    ELSE IF score <= 6 /\ entropy < 6000 THEN GOOD
    ELSE IF score <= 8 /\ entropy < 7000 THEN STRONG
    ELSE VERY_STRONG

\* faulty variant of _determine_strength: the Strong band ends below a score of 8
determine_strength_below_8(self, score, entropy) ==
    IF score <= 0 \/ entropy < 2800 THEN VERY_WEAK
    ELSE IF score <= 2 \/ entropy < 3600 THEN WEAK
    ELSE IF score <= 4 \/ entropy < 5000 THEN FAIR
    ELSE IF score <= 6 \/ entropy < 6000 THEN GOOD
    ELSE IF score < 8 \/ entropy < 7000 THEN STRONG
    ELSE VERY_STRONG

\* faulty variant of _determine_strength: a total of 0 is not yet VeryWeak
determine_strength_negative(self, score, entropy) ==
    IF score < 0 \/ entropy < 2800 THEN VERY_WEAK
    ELSE IF score <= 2 \/ entropy < 3600 THEN WEAK
    ELSE IF score <= 4 \/ entropy < 5000 THEN FAIR
    ELSE IF score <= 6 \/ entropy < 6000 THEN GOOD
    ELSE IF score <= 8 \/ entropy < 7000 THEN STRONG
    ELSE VERY_STRONG

\* _determine_strength; entropy in hundredths of a bit
determine_strength(self, score, entropy) ==
    IF score <= 0 \/ entropy < 2800 THEN VERY_WEAK
    ELSE IF score <= 2 \/ entropy < 3600 THEN WEAK
    ELSE IF score <= 4 \/ entropy < 5000 THEN FAIR
    ELSE IF score <= 6 \/ entropy < 6000 THEN GOOD
    ELSE IF score <= 8 \/ entropy < 7000 THEN STRONG
    ELSE VERY_STRONG

\* _estimate_crack_time; entropy in hundredths of a bit.  2 ** entropy is a
\* float power and raises OverflowError from 2 ** 1024.0 on.  seconds =
\* 2 ** entropy / 1e9 is below 1, 60, 3600, 86400, 31536000, 3153600000 exactly
\* when entropy is below 29.90, 35.81, 41.72, 46.30, 54.81, 61.46.  The count N
\* that the f-strings format is not computed.
estimate_crack_time(self, entropy) ==
    IF entropy >= 102400
    THEN Raise("OverflowError", "(34, 'Numerical result out of range')")
    ELSE Return(IF entropy < 2990 THEN "Instant"
                ELSE IF entropy < 3581 THEN "N seconds"
                ELSE IF entropy < 4172 THEN "N minutes"
                ELSE IF entropy < 4630 THEN "N hours"
                ELSE IF entropy < 5481 THEN "N days"
                ELSE IF entropy < 6146 THEN "N years"
                ELSE "Centuries")

\* faulty variant of the four checks: the feedback of the sequence check is
\* put before that of the pattern check
FourChecksSequencesFirst(self, password) ==
    LET l == check_length(self, password)
        v == check_character_variety(self, password)
        p == check_patterns(self, password)
        s == check_sequences(self, password)
    IN  [ score    |-> l.score + v.score + p.score + s.score,
          feedback |-> l.feedback \o v.feedback \o s.feedback \o p.feedback ]

\* the sum of the four checks' deltas and their feedback, in evaluation order
FourChecks(self, password) ==
    LET l == check_length(self, password)
        v == check_character_variety(self, password)
        p == check_patterns(self, password)
        s == check_sequences(self, password)
    IN  [ score    |-> l.score + v.score + p.score + s.score,
          feedback |-> l.feedback \o v.feedback \o p.feedback \o s.feedback ]

\* the general path of check_strength up to the return statement: the total and
\* the feedback of the four checks, the entropy, the level, the crack time
Analysed(self, password) ==
    LET checks  == FourChecks(self, password)
        entropy == calculate_entropy(self, password)
    IN  [ score         |-> checks.score,
          feedback      |-> checks.feedback,
          entropy       |-> entropy,
          strength      |-> determine_strength(self, checks.score, entropy),
          time_to_crack |-> estimate_crack_time(self, entropy) ]

\* the return statement of the general path, unless the crack time raised
Returned(password, a, score, feedback) ==
    IF a.time_to_crack.kind = "raise" THEN a.time_to_crack
    ELSE Return(PasswordAnalysis(password, a.strength, score, a.entropy, feedback,
                                 a.time_to_crack.value))

\* feedback if feedback else ["Password meets security requirements"]
OrAffirmative(feedback) ==
    IF feedback # <<>> THEN feedback ELSE <<"Password meets security requirements">>

\* the result of the early exit
EmptyAnalysis ==
    PasswordAnalysis(<<>>, VERY_WEAK, 0, 0, <<"Password cannot be empty">>, "Instant")

\* faulty variant of check_strength: no early exit for the empty password
check_strength_no_early_exit(self, password) ==
    LET a == Analysed(self, password)
    IN  Returned(password, a, Max(0, a.score), OrAffirmative(a.feedback))

\* faulty variant of check_strength: the total is returned without the clamp
check_strength_unclamped(self, password) ==
    IF password = <<>> THEN Return(EmptyAnalysis)
    ELSE LET a == Analysed(self, password)
         IN  Returned(password, a, a.score, OrAffirmative(a.feedback))

\* faulty variant of check_strength: the feedback is returned as accumulated
check_strength_bare_feedback(self, password) ==
    IF password = <<>> THEN Return(EmptyAnalysis)
    ELSE LET a == Analysed(self, password)
         IN  Returned(password, a, Max(0, a.score), a.feedback)

\* check_strength
check_strength(self, password) ==
    IF password = <<>> THEN Return(EmptyAnalysis)
    ELSE LET a == Analysed(self, password)
         IN  Returned(password, a, Max(0, a.score), OrAffirmative(a.feedback))

-----------------------------------------------------------------------------
(* The secure random source *)

\* the raw values the source hands out during one call
Tapes == [1..TapeLen -> 0..(RandLevels - 1)]

\* a random source at the start of a call: no draw made yet
NewRandom(t) == [tape |-> t, used |-> 0]

\* the outcome in 0..n-1 of the draw that follows rng.used earlier draws
RandBelow(rng, n) == (rng.tape[(rng.used % TapeLen) + 1] * n) \div RandLevels

\* the source after one more draw
Drawn(rng) == [rng EXCEPT !.used = @ + 1]

\* the source after k more draws
Advance(rng, k) == [rng EXCEPT !.used = @ + k]

\* secrets.choice(seq)
Choice(rng, seq) == seq[RandBelow(rng, Len(seq)) + 1]

\* [secrets.choice(seq) for _ in range(n)]
Choices(rng, seq, n) == [i \in 1..n |-> Choice(Advance(rng, i - 1), seq)]

\* faulty variant of the exchange: x[j] is copied to x[i] and x[i] is lost
SwapCopying(x, i, j) == [x EXCEPT ![i] = x[j]]

\* x[i], x[j] = x[j], x[i]
Swap(x, i, j) == [x EXCEPT ![i] = x[j], ![j] = x[i]]

\* random.shuffle(x): for i in reversed(range(1, len(x))):
\*                        j = randbelow(i + 1); x[i], x[j] = x[j], x[i]
\* with positions counted from 1; i is the position still to be settled
RECURSIVE ShuffleFrom(_, _, _)
ShuffleFrom(rng, x, i) ==
    IF i < 2 THEN x
    ELSE ShuffleFrom(Drawn(rng), Swap(x, i, RandBelow(rng, i) + 1), i - 1)

\* secrets.SystemRandom().shuffle(password)
Shuffle(rng, x) == ShuffleFrom(rng, x, Len(x))

-----------------------------------------------------------------------------
(* PasswordGenerator *)

\* self.symbols
symbol_chars ==
  <<"!", "@", "#", "$", "%", "^", "&", "*", "(", ")", "_", "+", "-", "=", "[", "]", "{", "}",
    "|", ";", ":", ",", ".", "<", ">", "?">>

\* self.word_list
WORD_LIST ==
  <<
    <<"c", "o", "r", "r", "e", "c", "t">>, <<"h", "o", "r", "s", "e">>,
    <<"b", "a", "t", "t", "e", "r", "y">>, <<"s", "t", "a", "p", "l", "e">>,
    <<"m", "o", "u", "n", "t", "a", "i", "n">>, <<"r", "i", "v", "e", "r">>,
    <<"o", "c", "e", "a", "n">>, <<"f", "o", "r", "e", "s", "t">>,
    <<"c", "a", "s", "t", "l", "e">>, <<"d", "r", "a", "g", "o", "n">>,
    <<"w", "i", "z", "a", "r", "d">>, <<"k", "n", "i", "g", "h", "t">>,
    <<"p", "h", "o", "e", "n", "i", "x">>, <<"t", "h", "u", "n", "d", "e", "r">>,
    <<"c", "r", "y", "s", "t", "a", "l">>, <<"s", "h", "a", "d", "o", "w">>,
    <<"s", "i", "l", "v", "e", "r">>, <<"g", "o", "l", "d", "e", "n">>,
    <<"m", "y", "s", "t", "i", "c">>, <<"a", "n", "c", "i", "e", "n", "t">>,
    <<"c", "o", "s", "m", "i", "c">>, <<"d", "i", "g", "i", "t", "a", "l">>,
    <<"q", "u", "a", "n", "t", "u", "m">>, <<"s", "t", "e", "l", "l", "a", "r">>,
    <<"c", "i", "p", "h", "e", "r">>, <<"f", "a", "l", "c", "o", "n">>,
    <<"g", "r", "a", "n", "i", "t", "e">>, <<"h", "a", "r", "b", "o", "r">>,
    <<"i", "s", "l", "a", "n", "d">>, <<"j", "u", "n", "g", "l", "e">>,
    <<"k", "i", "n", "g", "d", "o", "m">>, <<"l", "u", "n", "a", "r">>,
    <<"n", "e", "b", "u", "l", "a">>, <<"o", "r", "b", "i", "t">>, <<"p", "r", "i", "s", "m">>,
    <<"r", "a", "d", "a", "r">>, <<"s", "u", "m", "m", "i", "t">>,
    <<"t", "e", "m", "p", "e", "s", "t">>,
    <<"u", "l", "t", "r", "a", "v", "i", "o", "l", "e", "t">>,
    <<"v", "e", "r", "t", "e", "x">>, <<"w", "h", "i", "s", "p", "e", "r">>,
    <<"x", "e", "n", "o", "n">>, <<"y", "e", "l", "l", "o", "w">>,
    <<"z", "e", "n", "i", "t", "h">>, <<"a", "l", "p", "h", "a">>, <<"b", "r", "a", "v", "o">>,
    <<"c", "h", "a", "r", "l", "i", "e">>, <<"d", "e", "l", "t", "a">>
  >>

\* PasswordGenerator()
NewGenerator ==
    [ lowercase |-> ascii_lowercase,
      uppercase |-> ascii_uppercase,
      digits    |-> ascii_digits,
      symbols   |-> symbol_chars,
      word_list |-> WORD_LIST ]

\* what a generator method hands back: its outcome and the random source after it
Outcome(out, rng) == [out |-> out, rng |-> rng]

\* faulty variant of the selection: the uppercase flag adds the lowercase set too
SelectedClassesWithLower(self, use_lowercase, use_uppercase, use_digits, use_symbols) ==
       (IF use_lowercase THEN <<self.lowercase>> ELSE <<>>)
    \o (IF use_uppercase THEN <<self.uppercase, self.lowercase>> ELSE <<>>)
    \o (IF use_digits THEN <<self.digits>> ELSE <<>>)
    \o (IF use_symbols THEN <<self.symbols>> ELSE <<>>)

\* the charsets of the selected classes, in the order of the four ifs
SelectedClasses(self, use_lowercase, use_uppercase, use_digits, use_symbols) ==
       (IF use_lowercase THEN <<self.lowercase>> ELSE <<>>)
    \o (IF use_uppercase THEN <<self.uppercase>> ELSE <<>>)
    \o (IF use_digits THEN <<self.digits>> ELSE <<>>)
    \o (IF use_symbols THEN <<self.symbols>> ELSE <<>>)

\* charset += ... for each selected class
RECURSIVE Concat(_)
Concat(seqs) == IF seqs = <<>> THEN <<>> ELSE Head(seqs) \o Concat(Tail(seqs))

\* faulty variant of the required draws: the last selected class gets none
RequiredDrawsButLast(rng, classes) ==
    [i \in 1..(Len(classes) - 1) |-> Choice(Advance(rng, i - 1), classes[i])]

\* password.append(secrets.choice(class)) for each selected class
RequiredDraws(rng, classes) ==
    [i \in 1..Len(classes) |-> Choice(Advance(rng, i - 1), classes[i])]

\* raise ValueError(...) of generate
InvalidLength == Raise("ValueError", "Password length must be at least 8 characters")
NoCharsetSelected == Raise("ValueError", "At least one character type must be selected")

\* generate from the password list on: the required draws, the fill from the
\* full charset, the shuffle
Drawing(rng, length, classes) ==
    LET charset          == Concat(classes)
        required         == RequiredDraws(rng, classes)
        remaining_length == length - Len(required)
        fill             == Choices(Advance(rng, Len(required)), charset,
                                    remaining_length)
        password         == required \o fill
        drawn            == Advance(rng, Len(password))
    IN  Outcome(Return(Shuffle(drawn, password)),
                Advance(drawn, Max(0, Len(password) - 1)))

\* faulty variant of generate: the charset is validated before the length
generate_charset_first(self, rng, length, use_lowercase, use_uppercase, use_digits, use_symbols) ==
    LET classes == SelectedClasses(self, use_lowercase, use_uppercase,
                                   use_digits, use_symbols)
    IN  IF Concat(classes) = <<>> THEN Outcome(NoCharsetSelected, rng)
        ELSE IF length < 8 THEN Outcome(InvalidLength, rng)
        ELSE Drawing(rng, length, classes)

\* generate
generate(self, rng, length, use_lowercase, use_uppercase, use_digits, use_symbols) ==
    IF length < 8 THEN Outcome(InvalidLength, rng)
    ELSE
        LET classes == SelectedClasses(self, use_lowercase, use_uppercase,
                                       use_digits, use_symbols)
        IN  IF Concat(classes) = <<>> THEN Outcome(NoCharsetSelected, rng)
            ELSE Drawing(rng, length, classes)

\* separator.join(words)
RECURSIVE Join(_, _)
Join(separator, words) ==
    IF words = <<>> THEN <<>>
    ELSE IF Len(words) = 1 THEN Head(words)
    ELSE Head(words) \o separator \o Join(separator, Tail(words))

\* raise ValueError(...) of generate_passphrase
InvalidWordCount == Raise("ValueError", "Passphrase must contain at least 3 words")

\* generate_passphrase once the word count is accepted
Phrase(self, rng, word_count, separator, capitalize) ==
    LET selected_words == Choices(rng, self.word_list, word_count)
        words == IF capitalize
                 THEN [i \in 1..word_count |-> Capitalize(selected_words[i])]
                 ELSE selected_words
    IN  Outcome(Return(Join(separator, words)), Advance(rng, word_count))

\* faulty variant of generate_passphrase: three words are refused too
generate_passphrase_above_3(self, rng, word_count, separator, capitalize) ==
    IF word_count <= 3 THEN Outcome(InvalidWordCount, rng)
    ELSE Phrase(self, rng, word_count, separator, capitalize)

\* generate_passphrase
generate_passphrase(self, rng, word_count, separator, capitalize) ==
    IF word_count < 3 THEN Outcome(InvalidWordCount, rng)
    ELSE Phrase(self, rng, word_count, separator, capitalize)

\* generate_pin
generate_pin(self, rng, length) ==
    Outcome(Return(Choices(rng, self.digits, length)), Advance(rng, Max(0, length)))

\* faulty variant of the loop of generate_multiple: a password generated
\* before is not added again
RECURSIVE GenerateEachDistinct(_, _, _, _, _, _)
GenerateEachDistinct(self, rng, count, length, kwargs, acc) ==
    IF count <= 0 THEN Outcome(Return(acc), rng)
    ELSE
        LET g == generate(self, rng, length, kwargs.use_lowercase, kwargs.use_uppercase,
                          kwargs.use_digits, kwargs.use_symbols)
        IN  IF g.out.kind = "raise" THEN g
            ELSE GenerateEachDistinct(self, g.rng, count - 1, length, kwargs,
                                      IF g.out.value \in Range(acc) THEN acc
                                      ELSE Append(acc, g.out.value))

\* [self.generate(length=length, **kwargs) for _ in range(count)], with the
\* passwords generated so far in acc; an exception of generate ends the loop
RECURSIVE GenerateEach(_, _, _, _, _, _)
GenerateEach(self, rng, count, length, kwargs, acc) ==
    IF count <= 0 THEN Outcome(Return(acc), rng)
    ELSE
        LET g == generate(self, rng, length, kwargs.use_lowercase, kwargs.use_uppercase,
                          kwargs.use_digits, kwargs.use_symbols)
        IN  IF g.out.kind = "raise" THEN g
            ELSE GenerateEach(self, g.rng, count - 1, length, kwargs,
                              Append(acc, g.out.value))

\* faulty variant of generate_multiple: the parameters are validated before
\* the loop, whatever the count
generate_multiple_validating(self, rng, count, length, kwargs) ==
    IF length < 8 THEN Outcome(InvalidLength, rng)
    ELSE IF Concat(SelectedClasses(self, kwargs.use_lowercase, kwargs.use_uppercase,
                                   kwargs.use_digits, kwargs.use_symbols)) = <<>>
         THEN Outcome(NoCharsetSelected, rng)
    ELSE GenerateEach(self, rng, count, length, kwargs, <<>>)

\* generate_multiple
generate_multiple(self, rng, count, length, kwargs) ==
    GenerateEach(self, rng, count, length, kwargs, <<>>)

-----------------------------------------------------------------------------
(* The inputs of the calls *)

\* the pieces check_strength's inputs are put together from: one character of
\* each kind, listed substrings, keyboard rows, listed passwords, mixed strings
Fragments ==
    { <<"a">>, <<"Z">>, <<"7">>, <<"!">>, <<" ">>,
      <<LineFeed>>, <<ArabicThree>>, <<KelvinSign>>,
      <<LineFeed, LineFeed, LineFeed>>,
      <<"1", "2", "3">>, <<"a", "b", "c">>, <<"1", "1", "1">>, <<"A", "A", "A">>,
      <<"q", "w", "e", "r", "t", "y">>, <<"a", "s", "d", "f", "g", "h">>,
      <<"1", "q", "a", "z">>,
      <<"p", "a", "s", "s", "w", "o", "r", "d">>, <<"m", "o", "n">>, <<"k", "e", "y">>,
      <<"a", "d", "m", "i", "n">>,
      <<"x", "K", "7", "#">>,
      <<"m", "Z", "4", "$", "v", "T", "8", "&", "h", "Q", "2", "!">> }

\* the concatenations of at most n fragments
RECURSIVE Concats(_)
Concats(n) ==
    IF n = 0 THEN {<<>>}
    ELSE LET shorter == Concats(n - 1)
         IN  shorter \cup {p \o f : p \in shorter, f \in Fragments}

\* s written n times
RECURSIVE Repeat(_, _)
Repeat(s, n) == IF n <= 0 THEN <<>> ELSE s \o Repeat(s, n - 1)

\* a listed password in several mixes of case, and with the KELVIN SIGN for k
CaseMixes(s) ==
    { s,
      [i \in 1..Len(s) |-> UpperChar(s[i])],
      Capitalize(s),
      [i \in 1..Len(s) |-> IF i % 2 = 0 THEN UpperChar(s[i]) ELSE s[i]],
      [i \in 1..Len(s) |-> IF s[i] = "k" THEN KelvinSign ELSE s[i]] }

ListedForms == UNION {CaseMixes(w) : w \in Range(COMMON_PASSWORDS)}

\* long passwords: one class, and all four classes
LongSeeds == { <<"a">>, <<"m", "Z", "4", "$", "v", "T", "8", "&", "h", "Q", "2", "!">> }

LongPasswords == {Repeat(s, n) : s \in LongSeeds, n \in 1..MaxRepeat}

Passwords == Concats(MaxFrags) \cup ListedForms \cup LongPasswords

\* lengths asked of generate: below, at and above the minimum
GenLengths == {-1, 0} \cup ((MaxGenLength - 3)..MaxGenLength)

Counts == -1..MaxCount

WordCounts == -1..MaxWordCount

PinLengths == -1..MaxPinLength

Separators == { <<"-">>, <<>>, <<" ">>, <<"-", "-">>, <<"a">> }

Flags == [use_lowercase : BOOLEAN, use_uppercase : BOOLEAN,
          use_digits : BOOLEAN, use_symbols : BOOLEAN]

-----------------------------------------------------------------------------
(* The tool: one checker, one generator, and the menu loop calling them *)

NoResult == [kind |-> "none"]
NoTape == <<>>

\* PasswordSecurityTool(): the state after construction, at the menu
Init ==
    /\ checker = NewChecker
    /\ generator = NewGenerator
    /\ op = "menu"
    /\ args = <<>>
    /\ result = NoResult
    /\ tape = NoTape
    /\ draws = 0

\* faulty variant of a generator call: the call takes the first word out of the
\* generator's word list
CalledConsuming(name, arguments, t, outcome) ==
    /\ op' = name
    /\ args' = arguments
    /\ result' = outcome.out
    /\ tape' = t
    /\ draws' = outcome.rng.used
    /\ generator' = [generator EXCEPT !.word_list = Tail(@)]
    /\ UNCHANGED checker

\* a call of a generator method with the random source on tape t: its outcome
\* and the draws it made
Called(name, arguments, t, outcome) ==
    /\ op' = name
    /\ args' = arguments
    /\ result' = outcome.out
    /\ tape' = t
    /\ draws' = outcome.rng.used
    /\ UNCHANGED <<checker, generator>>

\* self.checker.check_strength(password)
CheckStrength ==
    /\ op = "menu"
    /\ \E password \in Passwords :
        /\ op' = "check_strength"
        /\ args' = [password |-> password]
        /\ result' = check_strength(checker, password)
        /\ tape' = NoTape
        /\ draws' = 0
        /\ UNCHANGED <<checker, generator>>

\* self.generator.generate(length, use_lowercase, use_uppercase, use_digits, use_symbols)
Generate ==
    /\ op = "menu"
    /\ \E length \in GenLengths, flags \in Flags, t \in Tapes :
        Called("generate",
               [length |-> length, flags |-> flags], t,
               generate(generator, NewRandom(t), length, flags.use_lowercase,
                        flags.use_uppercase, flags.use_digits, flags.use_symbols))

\* self.generator.generate_passphrase(word_count, separator, capitalize)
GeneratePassphrase ==
    /\ op = "menu"
    /\ \E word_count \in WordCounts, separator \in Separators,
          capitalize \in BOOLEAN, t \in Tapes :
        Called("generate_passphrase",
               [word_count |-> word_count, separator |-> separator,
                capitalize |-> capitalize], t,
               generate_passphrase(generator, NewRandom(t), word_count,
                                   separator, capitalize))

\* self.generator.generate_pin(length)
GeneratePin ==
    /\ op = "menu"
    /\ \E length \in PinLengths, t \in Tapes :
        Called("generate_pin",
               [length |-> length], t,
               generate_pin(generator, NewRandom(t), length))

\* self.generator.generate_multiple(count, length, **kwargs)
GenerateMultiple ==
    /\ op = "menu"
    /\ \E count \in Counts, length \in GenLengths, flags \in Flags, t \in Tapes :
        Called("generate_multiple",
               [count |-> count, length |-> length, flags |-> flags], t,
               generate_multiple(generator, NewRandom(t), count, length, flags))

\* the menu loop comes round again: the result has been shown and is dropped
Menu ==
    /\ op # "menu"
    /\ op' = "menu"
    /\ args' = <<>>
    /\ result' = NoResult
    /\ tape' = NoTape
    /\ draws' = 0
    /\ UNCHANGED <<checker, generator>>

Next ==
    \/ CheckStrength
    \/ Generate
    \/ GeneratePassphrase
    \/ GeneratePin
    \/ GenerateMultiple
    \/ Menu

Spec == Init /\ [][Next]_vars

-----------------------------------------------------------------------------
(* Properties of check_strength *)

\* the call that has just returned or raised
Checked == op = "check_strength"
CheckReturned == op = "check_strength" /\ result.kind = "return"

\* the sum of the deltas of the four checks on the password of the call
Total ==
    check_length(checker, args.password).score
    + check_character_variety(checker, args.password).score
    + check_patterns(checker, args.password).score
    + check_sequences(checker, args.password).score

\* whether none of the four checks produced a feedback string
NoFeedback ==
    /\ check_length(checker, args.password).feedback = <<>>
    /\ check_character_variety(checker, args.password).feedback = <<>>
    /\ check_patterns(checker, args.password).feedback = <<>>
    /\ check_sequences(checker, args.password).feedback = <<>>

Affirmative == "Password meets security requirements"
CommonlyUsed == "This is a commonly used password - avoid it"

\* C1: check_strength never fails: whatever the password, empty or very long,
\* the call returns an analysis and no step of it ends in an error.
C1_NeverFails == Checked => result.kind = "return"

\* C2: for the empty password the result is exactly VeryWeak, score 0, entropy
\* 0.0, feedback ["Password cannot be empty"], crack time "Instant"; it is the
\* early exit's result, not what the four checks would say of the empty string.
C2_EmptyPassword ==
    (Checked /\ args.password = <<>>) =>
        /\ result.kind = "return"
        /\ result.value.strength = VERY_WEAK
        /\ result.value.score = 0
        /\ result.value.entropy = 0
        /\ result.value.feedback = <<"Password cannot be empty">>
        /\ result.value.time_to_crack = "Instant"
        /\ result.value.feedback # FourChecks(checker, <<>>).feedback

C2_Witness == Checked /\ args.password = <<>> /\ result.kind = "return"

\* C3: the returned score is never negative and equals max(0, total), total
\* being the sum of the deltas of the four checks.
C3_ScoreClamped ==
    CheckReturned =>
        LET total == Total
        IN  /\ result.value.score >= 0
            /\ result.value.score = (IF total > 0 THEN total ELSE 0)

\* a call in which the clamp acts: the total is negative
C3_Witness == CheckReturned /\ Total < 0 /\ result.value.score = 0

\* C4: the returned feedback is never empty; it is exactly the one affirmative
\* message if and only if the password is non-empty and no check produced a
\* feedback string, and otherwise it does not contain that message.
C4_FeedbackNonEmpty ==
    CheckReturned =>
        LET feedback == result.value.feedback
            clean    == args.password # <<>> /\ NoFeedback
        IN  /\ feedback # <<>>
            /\ (feedback = <<Affirmative>>) <=> clean
            /\ ~clean => Affirmative \notin Range(feedback)

\* a call with a password no check objects to
C4_Witness == CheckReturned /\ result.value.feedback = <<Affirmative>>

\* the bands of the strength level, in ascending order: score ceiling S and
\* entropy floor E (in hundredths of a bit)
Bands ==
    << [S |-> 0, E |-> 2800], [S |-> 2, E |-> 3600], [S |-> 4, E |-> 5000],
       [S |-> 6, E |-> 6000], [S |-> 8, E |-> 7000] >>

\* the ordinal of the first band whose condition holds, 5 when none does
FirstBand(score, entropy) ==
    LET holding == {i \in 1..Len(Bands) : score <= Bands[i].S \/ entropy < Bands[i].E}
    IN  IF holding = {} THEN Len(Bands)
        ELSE (CHOOSE i \in holding : \A j \in holding : i <= j) - 1

\* entropies not above e: every whole bit and the hundredth just below it
EntropiesUpTo(e) ==
    {x \in {b * 100 - d : b \in 0..(e \div 100 + 1), d \in {0, 1}} : 0 <= x /\ x <= e}

\* C5: for a non-empty password the returned level is the first band, in the
\* order VeryWeak .. Strong, whose condition (total <= S or entropy < E) holds,
\* VeryStrong when none holds; so no smaller total with the same entropy, and no
\* smaller entropy with the same total, is given a higher level.
C5_FirstBand ==
    (CheckReturned /\ args.password # <<>>) =>
        LET level   == result.value.strength
            entropy == result.value.entropy
            total   == Total
        IN  /\ level = FirstBand(total, entropy)
            /\ \A s \in (total - Len(Bands) * 2)..total :
                   determine_strength(checker, s, entropy) <= level
            /\ \A e \in EntropiesUpTo(entropy) :
                   determine_strength(checker, total, e) <= level

\* a call in which the entropy floor decides the band: the total is above the
\* band's score ceiling
C5_Witness ==
    /\ CheckReturned
    /\ args.password # <<>>
    /\ result.value.strength = WEAK
    /\ Total > Bands[WEAK + 1].S

\* C6: a password whose lowercased form is on the list of common passwords, in
\* any mix of case, gets the level VeryWeak and the commonly-used feedback.
C6_CommonPassword ==
    (CheckReturned /\ Lower(args.password) \in Range(COMMON_PASSWORDS)) =>
        /\ result.value.strength = VERY_WEAK
        /\ CommonlyUsed \in Range(result.value.feedback)

\* a listed password typed with capitals
C6_Witness ==
    /\ CheckReturned
    /\ Lower(args.password) \in Range(COMMON_PASSWORDS)
    /\ args.password \notin Range(COMMON_PASSWORDS)
    /\ result.value.strength = VERY_WEAK

-----------------------------------------------------------------------------
(* Properties of the generator *)

SomeFlag(flags) ==
    flags.use_lowercase \/ flags.use_uppercase \/ flags.use_digits \/ flags.use_symbols

\* s holds a character of every class the flags select
CoversClasses(s, flags) ==
    /\ flags.use_lowercase => Range(s) \cap Range(generator.lowercase) # {}
    /\ flags.use_uppercase => Range(s) \cap Range(generator.uppercase) # {}
    /\ flags.use_digits => Range(s) \cap Range(generator.digits) # {}
    /\ flags.use_symbols => Range(s) \cap Range(generator.symbols) # {}

\* C7: with length >= 8 and at least one class selected, whatever the draws and
\* the shuffle, generate returns a string of exactly length characters that holds
\* a character of each selected class.
C7_LengthAndCoverage ==
    (op = "generate" /\ args.length >= 8 /\ SomeFlag(args.flags)) =>
        /\ result.kind = "return"
        /\ Len(result.value) = args.length
        /\ CoversClasses(result.value, args.flags)

\* a password of all four classes whose fill drew no symbol
C7_Witness ==
    /\ op = "generate"
    /\ result.kind = "return"
    /\ \A f \in DOMAIN args.flags : args.flags[f]
    /\ Cardinality({i \in 1..Len(result.value) :
                       result.value[i] \in Range(generator.symbols)}) = 1

\* C8: generate fails with InvalidLength whenever length < 8, whatever the flags,
\* and with NoCharsetSelected whenever length >= 8 and no class is selected; it
\* then returns no password and has made no random draw.
C8_InvalidArguments ==
    op = "generate" =>
        /\ args.length < 8 =>
              result = InvalidLength /\ draws = 0
        /\ (args.length >= 8 /\ ~SomeFlag(args.flags)) =>
              result = NoCharsetSelected /\ draws = 0

\* a call with both faults: too short and no class selected
C8_Witness ==
    /\ op = "generate"
    /\ args.length < 8
    /\ ~SomeFlag(args.flags)
    /\ result.kind = "raise"

\* the words a passphrase is made of
PhraseWords(capitalize) ==
    IF capitalize THEN {Capitalize(w) : w \in Range(generator.word_list)}
    ELSE Range(generator.word_list)

\* s is n words of the set joined by the separator
RECURSIVE IsJoined(_, _, _, _)
IsJoined(s, n, separator, words) ==
    IF n = 1 THEN s \in words
    ELSE \E w \in words :
            LET k == Len(w) + Len(separator)
            IN  /\ Len(s) >= k
                /\ SubSeq(s, 1, Len(w)) = w
                /\ SubSeq(s, Len(w) + 1, k) = separator
                /\ IsJoined(SubSeq(s, k + 1, Len(s)), n - 1, separator, words)

\* the pieces of s between the occurrences of character c are all non-empty
NonEmptySegments(s, c) ==
    /\ s # <<>>
    /\ s[1] # c
    /\ s[Len(s)] # c
    /\ \A i \in 1..(Len(s) - 1) : ~(s[i] = c /\ s[i + 1] = c)

Occurrences(s, c) == Cardinality({i \in 1..Len(s) : s[i] = c})

\* C9: generate_passphrase fails with InvalidWordCount exactly when word_count
\* < 3; otherwise it returns word_count words of the word list (capitalized when
\* asked) joined by the separator, so with separator "-" the result has
\* word_count - 1 occurrences of "-" and word_count non-empty segments.
C9_Passphrase ==
    op = "generate_passphrase" =>
        /\ (result.kind = "raise") <=> (args.word_count < 3)
        /\ result.kind = "raise" => result = InvalidWordCount
        /\ result.kind = "return" =>
              /\ IsJoined(result.value, args.word_count, args.separator,
                          PhraseWords(args.capitalize))
              /\ args.separator = <<"-">> =>
                    /\ Occurrences(result.value, "-") = args.word_count - 1
                    /\ NonEmptySegments(result.value, "-")

\* three capitalized words joined by "-"
C9_Witness ==
    /\ op = "generate_passphrase"
    /\ result.kind = "return"
    /\ args.word_count = 3
    /\ args.capitalize
    /\ args.separator = <<"-">>
    /\ Occurrences(result.value, "-") = 2

\* the random source before the i-th call of generate in generate_multiple:
\* each call makes length draws and length - 1 more in the shuffle
SourceBefore(i) == Advance(NewRandom(tape), (i - 1) * (2 * args.length - 1))

\* C10: with count >= 1, length >= 8 and at least one class selected,
\* generate_multiple returns exactly count strings in generation order, each of
\* exactly length characters and holding a character of every selected class;
\* equal passwords are kept.
C10_Multiple ==
    (op = "generate_multiple" /\ args.count >= 1 /\ args.length >= 8
        /\ SomeFlag(args.flags)) =>
        /\ result.kind = "return"
        /\ Len(result.value) = args.count
        /\ \A i \in 1..Len(result.value) :
              /\ Len(result.value[i]) = args.length
              /\ CoversClasses(result.value[i], args.flags)
              /\ Return(result.value[i]) =
                     generate(generator, SourceBefore(i), args.length,
                              args.flags.use_lowercase, args.flags.use_uppercase,
                              args.flags.use_digits, args.flags.use_symbols).out

\* a batch that holds the same password twice
C10_Witness ==
    /\ op = "generate_multiple"
    /\ result.kind = "return"
    /\ args.count >= 2
    /\ \E i, j \in 1..Len(result.value) : i < j /\ result.value[i] = result.value[j]

-----------------------------------------------------------------------------
(* Further properties of check_strength *)

\* which of the four classes are present in s
ClassesPresent(s) == <<HasLower(s), HasUpper(s), HasDigit(s), HasSymbol(s)>>

\* s without its i-th character
Without(s, i) == SubSeq(s, 1, i - 1) \o SubSeq(s, i + 1, Len(s))

\* the shorter passwords got from s by dropping one character, with the same
\* classes present as in s
ShorterAlike(s) ==
    {q \in {Without(s, i) : i \in 1..Len(s)} :
        q # <<>> /\ ClassesPresent(q) = ClassesPresent(s)}

\* the longer passwords got from s by writing its last character again, up to
\* three times
LongerAlike(s) == {s \o Repeat(<<s[Len(s)]>>, n) : n \in 1..3}

\* C11: of two non-empty passwords with the same classes present, the longer
\* one never has the smaller entropy.
C11_EntropyMonotone ==
    (CheckReturned /\ args.password # <<>>) =>
        /\ \A q \in ShorterAlike(args.password) :
               calculate_entropy(checker, q) <= result.value.entropy
        /\ \A q \in LongerAlike(args.password) :
               calculate_entropy(checker, q) >= result.value.entropy

\* a password with a shorter one of the same classes and strictly less entropy
C11_Witness ==
    /\ CheckReturned
    /\ args.password # <<>>
    /\ \E q \in ShorterAlike(args.password) :
           calculate_entropy(checker, q) < result.value.entropy

\* C12: both components are stateless: after any sequence of calls, successful
\* or failing, the thresholds, the reference lists, the class charsets and the
\* word list are what construction made them, and check_strength gives a
\* password the result it gives on a newly constructed checker.
C12_Stateless ==
    /\ checker = NewChecker
    /\ generator = NewGenerator
    /\ Checked => result = check_strength(NewChecker, args.password)

\* a check that returned, with both objects as constructed
C12_Witness ==
    /\ Checked
    /\ result.kind = "return"
    /\ args.password # <<>>
    /\ checker = NewChecker
    /\ generator = NewGenerator

\* C13 as stated: the returned score has no upper clamp and can exceed 10: some
\* password gets a score above 10.
C13_CanExceed10 ==
    \E password \in Passwords :
        LET r == check_strength(checker, password)
        IN  r.kind = "return" /\ r.value.score > 10

\* C13, amended: the returned score has no upper clamp (it is the total of the
\* four checks whenever that is not negative), but it never exceeds 8, the
\* length check adding at most 3 and the variety check at most 5.
C13_ScoreAtMost8 ==
    CheckReturned =>
        LET total == Total
        IN  /\ result.value.score <= 8
            /\ total >= 0 => result.value.score = total

\* a long, varied password without penalties: the score is 8
C13_Witness ==
    /\ CheckReturned
    /\ Len(args.password) >= checker.strong_length
    /\ result.value.score = 8

(* The character classes of the generator *)

\* the four class sets, in the order of the flags
ClassSets == <<generator.lowercase, generator.uppercase, generator.digits, generator.symbols>>

\* no character occurs twice in s
NoRepeatedChar(s) == Cardinality(Range(s)) = Len(s)

PairwiseDisjoint(sets) ==
    \A i, j \in 1..Len(sets) : i # j => Range(sets[i]) \cap Range(sets[j]) = {}

\* the characters of the classes the flags select
SelectedUnion(flags) ==
    UNION { IF flags.use_lowercase THEN Range(generator.lowercase) ELSE {},
            IF flags.use_uppercase THEN Range(generator.uppercase) ELSE {},
            IF flags.use_digits THEN Range(generator.digits) ELSE {},
            IF flags.use_symbols THEN Range(generator.symbols) ELSE {} }

\* the charset generate builds for the flags of the call
CharsetOfCall ==
    Concat(SelectedClasses(generator, args.flags.use_lowercase, args.flags.use_uppercase,
                           args.flags.use_digits, args.flags.use_symbols))

\* C14 as stated: the class sets have 26, 26, 10 and 28 characters, are pairwise
\* disjoint and without repeated character, and their union has 90 characters.
C14_SymbolSet28 ==
    /\ <<Len(ClassSets[1]), Len(ClassSets[2]), Len(ClassSets[3]), Len(ClassSets[4])>>
           = <<26, 26, 10, 28>>
    /\ PairwiseDisjoint(ClassSets)
    /\ \A i \in 1..4 : NoRepeatedChar(ClassSets[i])
    /\ Cardinality(Range(Concat(ClassSets))) = 90

\* C14, amended: the class sets have 26, 26, 10 and 26 characters, are pairwise
\* disjoint and without repeated character, so their union has 88 characters;
\* the charset generate draws from is the union of the selected sets, each
\* character once, and a generated password holds characters of that union only.
C14_Charset ==
    /\ <<Len(ClassSets[1]), Len(ClassSets[2]), Len(ClassSets[3]), Len(ClassSets[4])>>
           = <<26, 26, 10, 26>>
    /\ PairwiseDisjoint(ClassSets)
    /\ \A i \in 1..4 : NoRepeatedChar(ClassSets[i])
    /\ Cardinality(Range(Concat(ClassSets))) = 88
    /\ (op = "generate" /\ result.kind = "return") =>
           /\ Range(CharsetOfCall) = SelectedUnion(args.flags)
           /\ NoRepeatedChar(CharsetOfCall)
           /\ Range(result.value) \subseteq SelectedUnion(args.flags)

\* a password drawn from the uppercase letters and the symbols only, holding two
\* symbols or more
C14_Witness ==
    /\ op = "generate"
    /\ result.kind = "return"
    /\ args.flags = [use_lowercase |-> FALSE, use_uppercase |-> TRUE,
                     use_digits |-> FALSE, use_symbols |-> TRUE]
    /\ Len(CharsetOfCall) = 52
    /\ Cardinality({i \in 1..Len(result.value) :
                       result.value[i] \in Range(generator.symbols)}) >= 2

(* The order of the feedback *)

\* the messages of the common-substring scan
PatternMessages ==
    { "Avoid common patterns like '" \o Text(checker.COMMON_PATTERNS[i]) \o "'" :
          i \in 1..Len(checker.COMMON_PATTERNS) }

\* the place of a message in the order of evaluation, 0 for a message of none of
\* the four checks
Rank(message) ==
    CASE message \in { "Password too short. Use at least 8 characters",
                       "Consider using at least 12 characters" } -> 1
      [] message = "Add lowercase letters (a-z)" -> 2
      [] message = "Add uppercase letters (A-Z)" -> 3
      [] message = "Add numbers (0-9)" -> 4
      [] message = "Add special characters (!@#$%^&*)" -> 5
      [] message = "This is a commonly used password - avoid it" -> 6
      [] message \in PatternMessages -> 7
      [] message = "Avoid repeated characters (e.g., 'aaa', '111')" -> 8
      [] message = "Avoid keyboard patterns" -> 9
      [] OTHER -> 0

\* C15: for every non-empty password the feedback strings appear in the order
\* of evaluation: length, then the missing classes lowercase, uppercase, digit,
\* symbol, then common password before common substring, then repeated
\* characters before keyboard pattern.
C15_FeedbackOrder ==
    (CheckReturned /\ args.password # <<>>) =>
        LET feedback == result.value.feedback
        IN  \/ feedback = <<"Password meets security requirements">>
            \/ /\ \A i \in 1..Len(feedback) : Rank(feedback[i]) > 0
               /\ \A i \in 1..(Len(feedback) - 1) :
                      Rank(feedback[i]) < Rank(feedback[i + 1])

\* a password with feedback of all four checks, two of the pattern check and
\* the keyboard message among them
C15_Witness ==
    /\ CheckReturned
    /\ args.password # <<>>
    /\ Len(result.value.feedback) >= 6
    /\ {1, 3, 6, 7, 9} \subseteq
           {Rank(result.value.feedback[i]) : i \in 1..Len(result.value.feedback)}

(* The common-substring scan *)

\* the listed substrings that occur in the lowercased password, by index
Occurring(password) ==
    {i \in 1..Len(checker.COMMON_PATTERNS) :
         Contains(Lower(password), checker.COMMON_PATTERNS[i])}

\* the message that names the listed substring i
PatternMessage(i) == "Avoid common patterns like '" \o Text(checker.COMMON_PATTERNS[i]) \o "'"

\* the messages of the common-substring scan in a feedback list, by position
PatternFeedback(feedback) == {k \in 1..Len(feedback) : feedback[k] \in PatternMessages}

\* C16: the common-substring scan gives at most one -1 and at most one feedback
\* string however many listed substrings occur; the feedback names the first one
\* of the list '123', 'abc', 'qwe', '111', '000', 'aaa' that occurs in the
\* lowercased password, whether or not the -5 of a common password applies, so
\* the delta of the pattern check is one of 0, -1, -5, -6.
C16_OneSubstringPenalty ==
    Checked =>
        LET r         == check_patterns(checker, args.password)
            occurring == Occurring(args.password)
            common    == Lower(args.password) \in Range(checker.COMMON_PASSWORDS)
            named     == PatternFeedback(r.feedback)
        IN  /\ checker.COMMON_PATTERNS
                   = << <<"1", "2", "3">>, <<"a", "b", "c">>, <<"q", "w", "e">>,
                        <<"1", "1", "1">>, <<"0", "0", "0">>, <<"a", "a", "a">> >>
            /\ r.score \in {0, -1, -5, -6}
            /\ r.score = (IF common THEN -5 ELSE 0) + (IF occurring # {} THEN -1 ELSE 0)
            /\ Cardinality(named) <= 1
            /\ (occurring = {}) <=> (named = {})
            /\ \A i \in occurring :
                   (\A j \in occurring : i <= j) =>
                       \A k \in named : r.feedback[k] = PatternMessage(i)
            /\ (result.kind = "return" /\ args.password # <<>>) =>
                   \A m \in PatternMessages :
                       Occurrences(result.value.feedback, m) = Occurrences(r.feedback, m)

\* a common password in which two listed substrings occur, the one named being
\* the later one in the password
C16_Witness ==
    /\ CheckReturned
    /\ Occurring(args.password) = {1, 2}
    /\ Contains(SubSeq(args.password, 1, 3), checker.COMMON_PATTERNS[2])
    /\ check_patterns(checker, args.password).score = -6
    /\ \E k \in 1..Len(result.value.feedback) : result.value.feedback[k] = PatternMessage(1)

(* The repeated-characters penalty *)

\* three or more identical consecutive characters at some position
ThreeInARow(password) ==
    \E i \in 1..(Len(password) - 2) :
        password[i + 1] = password[i] /\ password[i + 2] = password[i]

RepeatedMessage == "Avoid repeated characters (e.g., 'aaa', '111')"

\* C17: the sequence check applies its -1 repeated-characters penalty, with the
\* repeated-characters feedback, if and only if the password holds three or more
\* identical consecutive characters, whatever the character (letters compared
\* case-sensitively, whitespace and line breaks included).
C17_RepeatPenalty ==
    Checked =>
        LET r        == check_sequences(checker, args.password)
            keyboard == r.score - (IF RepeatedMessage \in Range(r.feedback) THEN -1 ELSE 0)
        IN  /\ (RepeatedMessage \in Range(r.feedback)) <=> ThreeInARow(args.password)
            /\ keyboard \in {0, -1}

(* The four character classes of the checker *)

\* the classes a character belongs to, of lowercase, uppercase, digit, symbol
ClassesOf(c) ==
    (IF IsLower(c) THEN {"lowercase"} ELSE {}) \cup (IF IsUpper(c) THEN {"uppercase"} ELSE {})
    \cup (IF IsDigit(c) THEN {"digit"} ELSE {}) \cup (IF IsSymbol(c) THEN {"symbol"} ELSE {})

\* what one class alone is worth in the variety score and in charset_size
ClassCredit ==
    [ lowercase |-> [score |-> 1, charset_size |-> 26],
      uppercase |-> [score |-> 1, charset_size |-> 26],
      digit     |-> [score |-> 1, charset_size |-> 10],
      symbol    |-> [score |-> 2, charset_size |-> 32] ]

\* C18: every character of a password belongs to exactly one of the four
\* classes, the symbol class being the complement of the three others; so a
\* non-empty password has a class present (entropy > 0), and a password made of
\* one single character is credited with exactly one class in the variety score
\* and in charset_size.
C18_ExactlyOneClass ==
    (Checked /\ args.password # <<>>) =>
        LET password == args.password
            variety  == check_character_variety(checker, password)
            entropy  == calculate_entropy(checker, password)
        IN  /\ \A i \in 1..Len(password) : Cardinality(ClassesOf(password[i])) = 1
            /\ \A i \in 1..Len(password) :
                   IsSymbol(password[i]) <=>
                       ~(IsLower(password[i]) \/ IsUpper(password[i]) \/ IsDigit(password[i]))
            /\ entropy > 0
            /\ Cardinality(Range(password)) = 1 =>
                   \E class \in DOMAIN ClassCredit :
                       /\ variety.score = ClassCredit[class].score
                       /\ Len(variety.feedback) = 3
                       /\ entropy = RoundedProduct(Len(password),
                                                   ClassCredit[class].charset_size)

(* The reach of the total score *)

\* C19: the total of the four checks is at most 8 for every password (length
\* check at most +3, variety check at most +5, the two other checks never
\* positive), so the Strong band's condition on the score holds whenever that
\* band is reached, and check_strength never returns the level VeryStrong.
C19_NeverVeryStrong ==
    Checked =>
        LET password == args.password
            total    == Total
            entropy  == calculate_entropy(checker, password)
        IN  /\ check_length(checker, password).score <= 3
            /\ check_character_variety(checker, password).score <= 5
            /\ check_patterns(checker, password).score <= 0
            /\ check_sequences(checker, password).score <= 0
            /\ total <= 8
            /\ (total > 6 /\ entropy >= 6000) =>
                   determine_strength(checker, total, entropy) = STRONG
            /\ determine_strength(checker, total, entropy) # VERY_STRONG
            /\ result.kind = "return" => result.value.strength # VERY_STRONG

\* a password that reaches the best total, with an entropy above the floor of
\* every band: its level is Strong
C19_Witness ==
    /\ CheckReturned
    /\ Total = 8
    /\ result.value.entropy >= 7000
    /\ result.value.strength = STRONG

(* The clamp and the bands *)

\* the totals the four checks can give: from -2 - 5 - 1 - 1 - 1 to 3 + 5
Totals == (0 - 10)..8

\* the entropies at the floor of each band and just below it
BandEdges == UNION {{Bands[i].E - 1, Bands[i].E} : i \in 1..Len(Bands)}

\* C20: the level determined from the returned, clamped score max(0, total) is
\* the level determined from the unclamped total, for every total and every
\* entropy: every total <= 0 and its clamp 0 both fall in the VeryWeak band.
C20_ClampKeepsBand ==
    (CheckReturned /\ args.password # <<>>) =>
        LET total   == Total
            entropy == result.value.entropy
        IN  /\ result.value.score = Max(0, total)
            /\ determine_strength(checker, result.value.score, entropy)
                   = determine_strength(checker, total, entropy)
            /\ determine_strength(checker, result.value.score, entropy)
                   = result.value.strength
            /\ \A s \in Totals, e \in BandEdges \cup {0, entropy} :
                   /\ determine_strength(checker, Max(0, s), e)
                          = determine_strength(checker, s, e)
                   /\ s <= 0 => determine_strength(checker, s, e) = VERY_WEAK

\* a negative total clamped to 0, with an entropy that by itself would allow a
\* higher level
C20_Witness ==
    /\ CheckReturned
    /\ Total < 0
    /\ result.value.score = 0
    /\ result.value.entropy >= 3600
    /\ result.value.strength = VERY_WEAK

(* The characters of a generated password *)

\* the characters generate drew for the call, before the shuffle: one of each
\* selected class, then the fill from the charset
DrawnOfCall ==
    LET classes  == SelectedClasses(generator, args.flags.use_lowercase,
                                    args.flags.use_uppercase, args.flags.use_digits,
                                    args.flags.use_symbols)
        required == RequiredDraws(NewRandom(tape), classes)
    IN  required \o Choices(Advance(NewRandom(tape), Len(required)), Concat(classes),
                            args.length - Len(required))

\* the characters of the classes the flags leave out
UnselectedUnion(flags) ==
    UNION { IF flags.use_lowercase THEN {} ELSE Range(generator.lowercase),
            IF flags.use_uppercase THEN {} ELSE Range(generator.uppercase),
            IF flags.use_digits THEN {} ELSE Range(generator.digits),
            IF flags.use_symbols THEN {} ELSE Range(generator.symbols) }

\* C21: for every successful call of generate, whatever the draws and the
\* shuffle, every character of the password is of a selected class, none is of
\* a class whose flag is false, and the shuffle only permutes the drawn
\* characters: it adds, removes and changes none.
C21_OnlySelectedClasses ==
    (op = "generate" /\ result.kind = "return") =>
        LET password == result.value
            drawn    == DrawnOfCall
        IN  /\ \A i \in 1..Len(password) :
                   /\ password[i] \in SelectedUnion(args.flags)
                   /\ password[i] \notin UnselectedUnion(args.flags)
            /\ Len(password) = Len(drawn)
            /\ \A c \in Range(password) \cup Range(drawn) :
                   Occurrences(password, c) = Occurrences(drawn, c)

\* a password with two classes left out that the shuffle put in another order
C21_Witness ==
    /\ op = "generate"
    /\ result.kind = "return"
    /\ args.flags.use_digits /\ args.flags.use_symbols
    /\ ~args.flags.use_lowercase /\ ~args.flags.use_uppercase
    /\ result.value # DrawnOfCall
    /\ Cardinality(Range(result.value)) >= 3

(* The validation of generate_multiple *)

\* what the first call to generate of the batch gives
FirstGenerate ==
    generate(generator, NewRandom(tape), args.length, args.flags.use_lowercase,
             args.flags.use_uppercase, args.flags.use_digits, args.flags.use_symbols)

\* C22: generate_multiple validates its parameters only through the calls to
\* generate: with count <= 0 it returns the empty sequence without failing, even
\* when length < 8 or no class is selected; with count >= 1 and invalid
\* parameters it fails on the first call to generate, with that call's error,
\* and returns no partial sequence.
C22_ValidatesThroughGenerate ==
    op = "generate_multiple" =>
        /\ args.count <= 0 => result = Return(<<>>) /\ draws = 0
        /\ (args.count >= 1 /\ (args.length < 8 \/ ~SomeFlag(args.flags))) =>
               /\ result.kind = "raise"
               /\ result = FirstGenerate.out
               /\ result = (IF args.length < 8 THEN InvalidLength ELSE NoCharsetSelected)
               /\ draws = 0

\* a batch of no password asked with a length too short and no class selected
C22_Witness ==
    /\ op = "generate_multiple"
    /\ args.count <= 0
    /\ args.length < 8
    /\ ~SomeFlag(args.flags)
    /\ result = Return(<<>>)

====
